---- MODULE Spec2Model ----
(***************************************************************************)
(* A model of get_release_notes.py: issue references are extracted from    *)
(* commit messages, resolved against the issue tracker, aggregated per     *)
(* team and rendered as release notes.                                     *)
(*                                                                         *)
(* Strings are sequences of symbols.  A symbol is one character, except    *)
(* that a fixed literal of the program that holds no whitespace (a URL     *)
(* prefix, "GitHub") is written as one symbol: strip() and split() treat   *)
(* it as they treat any other non-whitespace character, and the regular    *)
(* expression is only ever run on commit messages, which hold single       *)
(* characters only.                                                        *)
(***************************************************************************)
EXTENDS Integers, Sequences, FiniteSets, TLC

VARIABLES
    title,          \* sys.argv[1]
    commits,        \* the parsed (sha, message) pairs, in input order
    tracker,        \* the issue tracker: issue id -> its issue JSON, or Null
    order,          \* the order in which the tracker lists the issues it returns
    pc,             \* "loop" | "done" | "aborted": position of __main__
    i,              \* number of commits generate_release_notes has processed
    commit,         \* the message last handed to extract_issues
    issues,         \* what extract_issues returned for it
    release_notes,  \* the merged team -> (issue id, note) -> links mapping
    calls,          \* resolver calls made by this invocation
    stdout,         \* the text of the JSON payload written, Null before
    stderr,         \* what get() printed on a failed response
    exit_status     \* the process exit status, Null while it runs

vars == <<title, commits, tracker, order, pc, i, commit, issues, release_notes,
          calls, stdout, stderr, exit_status>>

----------------------------------------------------------------------------
(* Bounds of the model. *)

MaxCommits == 2
MaxChunks == 4

----------------------------------------------------------------------------
(* Strings. *)

NL == "\n"

Whitespace == {" ", "\n", "\t"}

Upper == {"A", "B", "C", "D", "E", "F", "G", "H", "I", "J", "K", "L", "M",
          "N", "O", "P", "Q", "R", "S", "T", "U", "V", "W", "X", "Y", "Z"}

Digit == {"0", "1", "2", "3", "4", "5", "6", "7", "8", "9"}

DigitChar == <<"0", "1", "2", "3", "4", "5", "6", "7", "8", "9">>

\* str(n) for n >= 0.
RECURSIVE Str(_)
Str(n) ==
    IF n < 10 THEN <<DigitChar[n + 1]>>
    ELSE Str(n \div 10) \o <<DigitChar[(n % 10) + 1]>>

\* s[a:b] as Python slices it, with 1-based inclusive ends: s[a..b].
Slice(s, a, b) == IF a > b THEN <<>> ELSE SubSeq(s, a, b)

RECURSIVE LStrip(_)
LStrip(s) ==
    IF s # <<>> /\ Head(s) \in Whitespace THEN LStrip(Tail(s)) ELSE s

RECURSIVE RStrip(_)
RStrip(s) ==
    IF s # <<>> /\ s[Len(s)] \in Whitespace
    THEN RStrip(SubSeq(s, 1, Len(s) - 1))
    ELSE s

\* str.strip()
Strip(s) == RStrip(LStrip(s))

\* str.split(sep) for a one-character separator: the fields between the
\* occurrences of sep, in order.
Split(s, sep) ==
    LET at == SelectSeq([k \in 1..Len(s) |-> k], LAMBDA k : s[k] = sep)
    IN  [j \in 1..(Len(at) + 1) |->
            Slice(s, IF j = 1 THEN 1 ELSE at[j - 1] + 1,
                     IF j > Len(at) THEN Len(s) ELSE at[j] - 1)]

\* The concatenation of a sequence of strings.
RECURSIVE Concat(_)
Concat(ss) == IF ss = <<>> THEN <<>> ELSE Head(ss) \o Concat(Tail(ss))

\* sep.join(ss)
RECURSIVE Join(_, _)
Join(sep, ss) ==
    IF ss = <<>> THEN <<>>
    ELSE IF Len(ss) = 1 THEN Head(ss)
    ELSE Head(ss) \o sep \o Join(sep, Tail(ss))

----------------------------------------------------------------------------
(* extract_issues: re.compile(r'[#^]([A-Z]+-\d+)|^\[([A-Z]+-\d+)]')         *)

\* The end of the longest run of symbols of `class` that starts at s[p]
\* (p - 1 when s[p] is not in the class): what a greedy `class+` consumes.
RECURSIVE RunEnd(_, _, _)
RunEnd(s, p, class) ==
    IF p <= Len(s) /\ s[p] \in class THEN RunEnd(s, p + 1, class) ELSE p - 1

\* [A-Z]+-\d+ matched at s[p]: the index of its last symbol, or 0 for no
\* match.  Both runs are greedy and giving a symbol back never helps: the
\* symbol after a shortened run is a letter (digit), not '-' (']').
IssueIdEnd(s, p) ==
    LET a == RunEnd(s, p, Upper)
        b == RunEnd(s, a + 2, Digit)
    IN  IF a >= p /\ a + 1 <= Len(s) /\ s[a + 1] = "-" /\ b >= a + 2
        THEN b ELSE 0

NoMatch == [end |-> 0, group1 |-> <<>>, group2 |-> <<>>]

\* \[([A-Z]+-\d+)] matched at s[p].
BracketedAt(s, p) ==
    LET e == IF p + 1 <= Len(s) THEN IssueIdEnd(s, p + 1) ELSE 0
    IN  IF s[p] = "[" /\ e > 0 /\ e + 1 <= Len(s) /\ s[e + 1] = "]"
        THEN [end |-> e + 1, group1 |-> <<>>, group2 |-> Slice(s, p + 1, e)]
        ELSE NoMatch

\* MatchBracketed with the anchor lost: the bracket form found anywhere.
MatchBracketed_unanchored(s, p) == BracketedAt(s, p)

\* The second alternative, ^\[([A-Z]+-\d+)] : `^` without re.MULTILINE
\* matches at the start of the string only.
MatchBracketed(s, p) ==
    IF p = 1 THEN BracketedAt(s, p) ELSE NoMatch

\* The first alternative, [#^]([A-Z]+-\d+) : inside the class `^` is literal.
MatchMarked(s, p) ==
    LET e == IF p + 1 <= Len(s) THEN IssueIdEnd(s, p + 1) ELSE 0
    IN  IF s[p] \in {"#", "^"} /\ e > 0
        THEN [end |-> e, group1 |-> Slice(s, p + 1, e), group2 |-> <<>>]
        ELSE NoMatch

\* The pattern tried at position p: the alternatives in their written order.
MatchAt(s, p) ==
    IF MatchMarked(s, p).end > 0 THEN MatchMarked(s, p) ELSE MatchBracketed(s, p)

\* pattern.findall(s) from position p on: the non-overlapping matches, left
\* to right, each as its (group1, group2) tuple.
RECURSIVE FindAll(_, _)
FindAll(s, p) ==
    IF p > Len(s) THEN <<>>
    ELSE LET m == MatchAt(s, p)
         IN  IF m.end > 0
             THEN <<m>> \o FindAll(s, m.end + 1)
             ELSE FindAll(s, p + 1)

\* issues.update(match[0] or match[1] for match in pattern.findall(commit)).
\* The tuple built from the set has no defined order; the model keeps the
\* set, since the resolver is asked for a set of ids.
extract_issues(message) ==
    LET found == FindAll(message, 1)
    IN  { IF found[k].group1 # <<>> THEN found[k].group1 ELSE found[k].group2 :
              k \in 1..Len(found) }

----------------------------------------------------------------------------
(* JSON values.  An optional value is <<>> (null, Python's None) or <<v>>. *)

Null == <<>>

Some(v) == <<v>>

Get(opt) == opt[1]

\* Literals of the program.
NO_RELEASE_NOTE ==
    <<"N", "o", " ", "r", "e", "l", "e", "a", "s", "e", " ", "n", "o", "t", "e">>

NO_FEATURE_NAME ==
    <<"N", "o", " ", "f", "e", "a", "t", "u", "r", "e", " ", "n", "a", "m", "e">>

OTHER_TEAM == <<"O", "t", "h", "e", "r">>

YOUTRACK_ISSUE_URL == <<"<https://vyahhi.myjetbrains.com/youtrack/issue/">>

GITHUB_COMMIT_URL == <<"<https://github.com/hyperskill/alt/commit/">>

FEATURE_ADMIN_URL ==
    <<"<https://hyperskill.org/admin/feature_switcher/feature/?q=">>

----------------------------------------------------------------------------
(* class Issue *)

\* Issue.get_field_value: the value of the first custom field of that name.
RECURSIVE FieldValue(_, _)
FieldValue(fields, field_name) ==
    IF fields = <<>> THEN Null
    ELSE IF Head(fields).name = field_name THEN Head(fields).value
    ELSE FieldValue(Tail(fields), field_name)

get_field_value(issue, field_name) == FieldValue(issue.customFields, field_name)

id_readable(issue) == issue.idReadable

\* Issue.release_note: Null, or the stripped text.  An empty stripped text
\* is returned as it is; the caller's `or` treats it as absent.
Issue_release_note(issue) ==
    LET value == get_field_value(issue, "Release note")
    IN  IF value = Null THEN Null
        ELSE IF Strip(Get(value).text) = NO_RELEASE_NOTE THEN Null
        ELSE Some(Strip(Get(value).text))

\* Issue.product_team
product_team(issue) ==
    LET value == get_field_value(issue, "Product team")
    IN  IF value = Null THEN OTHER_TEAM
        ELSE IF Get(value).name = Null \/ Get(Get(value).name) = <<>> THEN OTHER_TEAM
        ELSE Get(Get(value).name)

\* Issue.feature_name
feature_name(issue) ==
    LET value == get_field_value(issue, "Feature name")
    IN  IF value = Null \/ Get(value) = <<>> \/ Get(value) = NO_FEATURE_NAME
        THEN Null
        ELSE value

\* Issue.feature_admin_link: '' without a feature name.
feature_admin_link(issue) ==
    IF feature_name(issue) = Null THEN <<>>
    ELSE FEATURE_ADMIN_URL \o Get(feature_name(issue)) \o <<"|">>
             \o Get(feature_name(issue)) \o <<">">>

TrackerLink(issue_id) ==
    YOUTRACK_ISSUE_URL \o issue_id \o <<"|">> \o issue_id \o <<">">>

\* Issue.link
link(issue) == TrackerLink(id_readable(issue))

\* get_issues: the tracker's answer to 'issue id: <ids>'.  The tracker lists
\* the issues it knows among those asked for, in its own order.
RECURSIVE Listed(_, _)
Listed(ord, ids) ==
    IF ord = <<>> THEN <<>>
    ELSE IF Head(ord) \in ids /\ tracker[Head(ord)] # Null
    THEN <<Get(tracker[Head(ord)])>> \o Listed(Tail(ord), ids)
    ELSE Listed(Tail(ord), ids)

get_issues(ids) == Listed(order, ids)

----------------------------------------------------------------------------
(* defaultdict(lambda: defaultdict(set)): a dict keeps insertion order, so *)
(* it is a sequence of [key, value] items with distinct keys.              *)

HasKey(d, k) == \E j \in 1..Len(d) : d[j].key = k

KeyIndex(d, k) == CHOOSE j \in 1..Len(d) : d[j].key = k

Keys(d) == [j \in 1..Len(d) |-> d[j].key]

\* d[k].update(links), d a defaultdict(set), the link set replaced.
SetUpdate_overwrite(d, k, links) ==
    IF HasKey(d, k)
    THEN [d EXCEPT ![KeyIndex(d, k)].value = links]
    ELSE Append(d, [key |-> k, value |-> links])

\* d[k].update(links), d a defaultdict(set), an existing key moved to the end.
SetUpdate_moved(d, k, links) ==
    IF HasKey(d, k)
    THEN SelectSeq(d, LAMBDA it : it.key # k)
             \o <<[key |-> k, value |-> d[KeyIndex(d, k)].value \cup links]>>
    ELSE Append(d, [key |-> k, value |-> links])

\* d[k].update(links), d a defaultdict(set)
SetUpdate(d, k, links) ==
    IF HasKey(d, k)
    THEN [d EXCEPT ![KeyIndex(d, k)].value = @ \cup links]
    ELSE Append(d, [key |-> k, value |-> links])

\* notes[team][key].update(links)
NotesUpdate(notes, team, key, links) ==
    IF HasKey(notes, team)
    THEN [notes EXCEPT ![KeyIndex(notes, team)].value = SetUpdate(@, key, links)]
    ELSE Append(notes, [key |-> team, value |-> SetUpdate(<<>>, key, links)])

----------------------------------------------------------------------------
(* release_note *)

github_url(sha) == GITHUB_COMMIT_URL \o sha \o <<"|", "GitHub", ">">>

\* commit_message.split('\n')[0], the whole message taken instead.
commit_short_message_whole(commit_message) == commit_message

\* commit_message.split('\n')[0]
commit_short_message(commit_message) == Split(commit_message, NL)[1]

\* yt_issue.release_note or commit_short_message
NoteFor(yt_issue, commit_message) ==
    LET note == Issue_release_note(yt_issue)
    IN  IF note = Null \/ Get(note) = <<>>
        THEN commit_short_message(commit_message)
        ELSE Get(note)

\* links = [yt_issue.link, github_url], the commit link forgotten.
LinksFor_no_commit(yt_issue, sha) ==
    {link(yt_issue)}
        \cup (IF feature_admin_link(yt_issue) # <<>>
              THEN {feature_admin_link(yt_issue)} ELSE {})

\* links = [yt_issue.link, github_url], plus the feature admin link if any.
LinksFor(yt_issue, sha) ==
    {link(yt_issue), github_url(sha)}
        \cup (IF feature_admin_link(yt_issue) # <<>>
              THEN {feature_admin_link(yt_issue)} ELSE {})

\* for yt_issue in yt_issues: ... release_notes[product_team][(id, note)].update(links)
RECURSIVE AddIssues(_, _, _, _)
AddIssues(notes, yt_issues, commit_message, sha) ==
    IF yt_issues = <<>> THEN notes
    ELSE LET yt_issue == Head(yt_issues)
         IN  AddIssues(
                 NotesUpdate(notes, product_team(yt_issue),
                             <<Some(id_readable(yt_issue)),
                               NoteFor(yt_issue, commit_message)>>,
                             LinksFor(yt_issue, sha)),
                 Tail(yt_issues), commit_message, sha)

\* if not release_notes: ..., the commit without a resolved issue left out.
Fallback_dropped(notes, commit_message, sha) == notes

\* if not release_notes: release_notes['Other'][(None, short)].add(github_url)
Fallback(notes, commit_message, sha) ==
    IF notes = <<>>
    THEN NotesUpdate(notes, OTHER_TEAM,
                     <<Null, commit_short_message(commit_message)>>,
                     {github_url(sha)})
    ELSE notes

\* yt_issues = get_issues(...) if issues else (), one call all the same.
ResolverCalls_unguarded(ids) == 1

\* yt_issues = get_issues(...) if issues else (): the calls this makes.
ResolverCalls(ids) == IF ids # {} THEN 1 ELSE 0

\* release_note(commit_message, sha), the resolver having answered.
release_note(commit_message, sha) ==
    LET ids == extract_issues(commit_message)
        yt_issues == IF ids # {} THEN get_issues(ids) ELSE <<>>
    IN  Fallback(AddIssues(<<>>, yt_issues, commit_message, sha),
                 commit_message, sha)

----------------------------------------------------------------------------
(* generate_release_notes *)

\* for (issue_id, note), links in issues.items(): release_notes[team][...].update(links)
RECURSIVE MergeIssues(_, _, _)
MergeIssues(notes, team, items) ==
    IF items = <<>> THEN notes
    ELSE MergeIssues(NotesUpdate(notes, team, Head(items).key, Head(items).value),
                     team, Tail(items))

\* for product_team, issues in release_note(commit, sha).items(): ...
RECURSIVE Merge(_, _)
Merge(notes, one) ==
    IF one = <<>> THEN notes
    ELSE Merge(MergeIssues(notes, Head(one).key, Head(one).value), Tail(one))

\* The orders in which iterating a set of strings can yield its members:
\* string hashes are salted per process, so every order is possible.
Iterations(S) ==
    { f \in [1..Cardinality(S) -> S] : \A a, b \in 1..Cardinality(S) : f[a] = f[b] => a = b }

IssueLinkOrEmpty(issue_id) ==
    IF issue_id = Null THEN <<>> ELSE TrackerLink(Get(issue_id)) \o <<":", " ">>

\* f'{index}. {issue_link}{note}' and the bracketed links, for each
\* iteration order of the link set.
EntryLines(index, item) ==
    LET head == Str(index) \o <<".", " ">> \o IssueLinkOrEmpty(item.key[1]) \o item.key[2]
    IN  IF item.value # {}
        THEN { head \o <<" ", "[">> \o Join(<<",", " ">>, f) \o <<"]", NL>> :
                   f \in Iterations(item.value) }
        ELSE { head \o <<NL>> }

\* for index, (...) in enumerate(issues.items(), start=1), from item `index` on.
RECURSIVE IssuesStrs(_, _)
IssuesStrs(items, index) ==
    IF index > Len(items) THEN { <<>> }
    ELSE { l \o rest : l \in EntryLines(index, items[index]),
                       rest \in IssuesStrs(items, index + 1) }

TeamHeader(team) == <<NL, NL>> \o team \o <<":", NL>>

\* for product_team, issues in release_notes.items(): the strings
\* release_notes_str can end as.
RECURSIVE NotesStrs(_)
NotesStrs(notes) ==
    IF notes = <<>> THEN { <<>> }
    ELSE { TeamHeader(Head(notes).key) \o body \o rest :
               body \in IssuesStrs(Head(notes).value, 1),
               rest \in NotesStrs(Tail(notes)) }

\* return release_notes_str.strip(), the strip left out.
Rendered_unstripped(notes) == NotesStrs(notes)

\* return release_notes_str.strip()
Rendered(notes) == { Strip(s) : s \in NotesStrs(notes) }

\* release_notes = title + '\n' + generate_release_notes(commits)
Payload(t, notes) == { t \o <<NL>> \o s : s \in Rendered(notes) }

----------------------------------------------------------------------------
(* The inputs the model draws from. *)

A1 == <<"A", "-", "1">>

BC20 == <<"B", "C", "-", "2", "0">>

IDS == {A1, BC20}

ORDERS == { <<A1, BC20>>, <<BC20, A1>> }

TEAM_A == <<"A">>

TEAM_B == <<"B">>

IssueJson(id, note, team, feature) ==
    [idReadable |-> id,
     customFields |-> << [name |-> "Product team", value |-> team],
                         [name |-> "Release note", value |-> note],
                         [name |-> "Feature name", value |-> feature] >>]

\* What the tracker may hold for an issue id: between them the two ids
\* cover a release note that is present (with and without whitespace around
\* it), null, empty, the sentinel or missing; a team that is named, without
\* name or missing; a feature name that is present, null, empty, the
\* sentinel or missing.
IssuesOf(id) ==
    IF id = A1
    THEN { IssueJson(id, Some([text |-> <<" ", "D", "o", "n", "e", NL>>]),
                     Some([name |-> Some(TEAM_A)]), Some(<<"F", "1">>)),
           IssueJson(id, Null, Some([name |-> Some(TEAM_A)]), Null),
           IssueJson(id, Some([text |-> <<>>]), Some([name |-> Null]), Some(<<>>)) }
    ELSE { IssueJson(id, Some([text |-> <<" ">> \o NO_RELEASE_NOTE \o <<NL>>]),
                     Some([name |-> Some(TEAM_B)]), Some(NO_FEATURE_NAME)),
           IssueJson(id, Some([text |-> <<"D", "o", "n", "e">>]),
                     Some([name |-> Some(TEAM_A)]), Null),
           [idReadable |-> id, customFields |-> <<>>] }

TRACKERS ==
    { t \in [IDS -> {Null} \cup UNION { {Some(j) : j \in IssuesOf(id)} : id \in IDS }] :
          \A id \in IDS : t[id] = Null \/ Get(t[id]) \in IssuesOf(id) }

\* '[A-1] x\ny': the bracket form, a message of two lines.
MSG_BRACKET == <<"[", "A", "-", "1", "]", " ", "x", NL, "y">>

\* 'f #A-1 ^BC-20': both marker forms, two issues.
MSG_TWO == <<"f", " ", "#", "A", "-", "1", " ", "^", "B", "C", "-", "2", "0">>

\* 'fix\n[A-1]': no reference, the bracket form not at the start.
MSG_PLAIN == <<"f", "i", "x", NL, "[", "A", "-", "1", "]">>

MSGS == {MSG_BRACKET, MSG_TWO, MSG_PLAIN}

TITLES == { <<"v", "1">> }

\* Commit shas are distinct: the k-th commit's.
Sha(k) == <<"c">> \o Str(k)

COMMITS ==
    UNION { { [k \in 1..n |-> <<Sha(k), m[k]>>] : m \in [1..n -> MSGS] } :
                n \in 1..MaxCommits }

CHUNKS ==
    { <<"#">>, <<"^">>, <<"[">>, <<"]">>, A1, BC20, <<"A">>, <<"-">>, <<"1">>,
      <<" ">>, <<NL>>, <<"a">> }

ERROR_BODY == <<"response.content">>

----------------------------------------------------------------------------
(* __main__ *)

Init ==
    /\ title \in TITLES
    /\ commits \in COMMITS
    /\ tracker \in TRACKERS
    /\ order \in ORDERS
    /\ pc = "loop"
    /\ i = 0
    /\ commit = <<>>
    /\ issues = {}
    /\ release_notes = <<>>
    /\ calls = 0
    /\ stdout = Null
    /\ stderr = Null
    /\ exit_status = Null

\* One iteration of `for sha, commit in commits`: release_note(commit, sha),
\* every resolver call it makes answered with success, and the merge.
ProcessCommit ==
    /\ pc = "loop"
    /\ i < Len(commits)
    /\ commit' = commits[i + 1][2]
    /\ issues' = extract_issues(commits[i + 1][2])
    /\ calls' = calls + ResolverCalls(extract_issues(commits[i + 1][2]))
    /\ release_notes' =
           Merge(release_notes, release_note(commits[i + 1][2], commits[i + 1][1]))
    /\ i' = i + 1
    /\ UNCHANGED <<title, commits, tracker, order, pc, stdout, stderr,
                   exit_status>>

\* get() on a response that is not a success, the response returned anyway:
\* the commit goes on with no issue resolved.
ResolverFails_swallowed ==
    /\ pc = "loop"
    /\ i < Len(commits)
    /\ extract_issues(commits[i + 1][2]) # {}
    /\ commit' = commits[i + 1][2]
    /\ issues' = extract_issues(commits[i + 1][2])
    /\ calls' = calls + 1
    /\ stderr' = Some(ERROR_BODY)
    /\ release_notes' =
           Merge(release_notes,
                 Fallback(<<>>, commits[i + 1][2], commits[i + 1][1]))
    /\ i' = i + 1
    /\ UNCHANGED <<title, commits, tracker, order, pc, stdout, exit_status>>

\* One iteration whose resolver call gets a response that is not a success:
\* get() prints the body and raise_for_status() raises; nothing catches it.
ResolverFails ==
    /\ pc = "loop"
    /\ i < Len(commits)
    /\ extract_issues(commits[i + 1][2]) # {}
    /\ commit' = commits[i + 1][2]
    /\ issues' = extract_issues(commits[i + 1][2])
    /\ calls' = calls + 1
    /\ stderr' = Some(ERROR_BODY)
    /\ exit_status' = Some(1)
    /\ pc' = "aborted"
    /\ UNCHANGED <<title, commits, tracker, order, i, release_notes, stdout>>

\* The loop is over: the notes are rendered and the payload is written.
Render ==
    /\ pc = "loop"
    /\ i = Len(commits)
    /\ \E text \in Payload(title, release_notes) : stdout' = Some(text)
    /\ exit_status' = Some(0)
    /\ pc' = "done"
    /\ UNCHANGED <<title, commits, tracker, order, i, commit, issues,
                   release_notes, calls, stderr>>

Next == ProcessCommit \/ ResolverFails \/ Render

Spec == Init /\ [][Next]_vars

----------------------------------------------------------------------------
(* extract_issues on its own, over every message of up to MaxChunks chunks. *)

InitExtract ==
    /\ \E n \in 0..MaxChunks : \E cs \in [1..n -> CHUNKS] : commit = Concat(cs)
    /\ issues = {}
    /\ pc = "extract"
    /\ title = <<>>
    /\ commits = <<>>
    /\ tracker = [id \in IDS |-> Null]
    /\ order = <<>>
    /\ i = 0
    /\ release_notes = <<>>
    /\ calls = 0
    /\ stdout = Null
    /\ stderr = Null
    /\ exit_status = Null

ExtractIssues ==
    /\ pc = "extract"
    /\ issues' = extract_issues(commit)
    /\ pc' = "extracted"
    /\ UNCHANGED <<title, commits, tracker, order, i, commit, release_notes,
                   calls, stdout, stderr, exit_status>>

NextExtract == ExtractIssues

SpecExtract == InitExtract /\ [][NextExtract]_vars

----------------------------------------------------------------------------
(* What the properties below are stated with. *)

StartsWith(s, prefix) ==
    Len(prefix) <= Len(s) /\ \A k \in 1..Len(prefix) : s[k] = prefix[k]

Occurs(sub, s) ==
    \E p \in 0..(Len(s) - Len(sub)) : \A k \in 1..Len(sub) : s[p + k] = sub[k]

\* s[a..b] reads UPPERCASE-LETTERS '-' DIGITS.
IsIssueId(s, a, b) ==
    \E h \in (a + 1)..(b - 1) :
        /\ s[h] = "-"
        /\ \A k \in a..(h - 1) : s[k] \in Upper
        /\ \A k \in (h + 1)..b : s[k] \in Digit

\* The identifiers that stand right after a '#' or a '^', each read to the
\* end of its digits.
MarkedIds(s) ==
    UNION { { Slice(s, p + 1, e) :
                  e \in { q \in (p + 3)..Len(s) :
                              /\ s[q] \in Digit
                              /\ (q = Len(s) \/ s[q + 1] \notin Digit)
                              /\ IsIssueId(s, p + 1, q) } } :
                p \in { q \in 1..Len(s) : s[q] \in {"#", "^"} } }

\* The identifier in square brackets that opens the message, if any.
BracketedAtStart(s) ==
    IF s = <<>> \/ s[1] # "[" THEN {}
    ELSE { Slice(s, 2, e) :
               e \in { q \in 1..(Len(s) - 1) :
                           s[q + 1] = "]" /\ IsIssueId(s, 2, q) } }

ReferencedIds(s) == MarkedIds(s) \cup BracketedAtStart(s)

----------------------------------------------------------------------------
(* C8: extract_issues returns exactly the set of identifiers of shape      *)
(* UPPERCASE-LETTERS '-' DIGITS that stand right after a '#' or '^'        *)
(* anywhere in the message or in square brackets at its very start; a      *)
(* message with no marker that does not open with a bracket yields the     *)
(* empty set, and no returned identifier starts other than with an         *)
(* uppercase letter.                                                       *)
C8_ExtractExact ==
    pc = "extracted" =>
        /\ issues = ReferencedIds(commit)
        /\ ((\A k \in 1..Len(commit) : commit[k] \notin {"#", "^"})
                /\ (commit = <<>> \/ commit[1] # "[")
            => issues = {})
        /\ \A id \in issues : id[1] \in Upper /\ id[Len(id)] \in Digit

\* An identifier referenced by both marker styles is returned once.
C8_Witness ==
    /\ pc = "extracted"
    /\ commit = <<"#">> \o A1 \o <<"^">> \o A1
    /\ issues = {A1}

----------------------------------------------------------------------------
(* The run seen from outside. *)

Message(k) == commits[k][2]

ShaOf(k) == commits[k][1]

Range(f) == { f[x] : x \in DOMAIN f }

\* n is the first line of msg.
IsFirstLineOf(n, msg) ==
    /\ StartsWith(msg, n)
    /\ \A k \in 1..Len(n) : n[k] # NL
    /\ (Len(n) = Len(msg) \/ msg[Len(n) + 1] = NL)

\* A team -> key -> links mapping as the set of its <<team, key, links>>.
Entries(notes) ==
    UNION { { <<notes[a].key, notes[a].value[b].key, notes[a].value[b].value>> :
                  b \in 1..Len(notes[a].value) } : a \in 1..Len(notes) }

\* What release_note returned for each of the first n commits.
RECURSIVE Returned(_)
Returned(n) ==
    IF n = 0 THEN <<>>
    ELSE Append(Returned(n - 1), release_note(Message(n), ShaOf(n)))

\* The positions <<a, b>> of the entries of a mapping.
Positions(notes) ==
    UNION { { <<a, b>> : b \in 1..Len(notes[a].value) } : a \in 1..Len(notes) }

TeamAt(notes, ab) == notes[ab[1]].key

KeyAt(notes, ab) == notes[ab[1]].value[ab[2]].key

LinksAt(notes, ab) == notes[ab[1]].value[ab[2]].value

\* The links the mapping holds under team and key; none if it has no such entry.
LinksUnder(notes, team, key) ==
    UNION { LinksAt(notes, ab) :
                ab \in { q \in Positions(notes) :
                             TeamAt(notes, q) = team /\ KeyAt(notes, q) = key } }

Holds(notes, team, key) ==
    \E ab \in Positions(notes) : TeamAt(notes, ab) = team /\ KeyAt(notes, ab) = key

IsTrackerLink(l) == StartsWith(l, YOUTRACK_ISSUE_URL)

IsCommitLink(l) == StartsWith(l, GITHUB_COMMIT_URL)

\* The tracker resolves none of the k-th commit's references.
NoIssueResolved(k) == \A id \in ReferencedIds(Message(k)) : tracker[id] = Null

\* The lines of the text written.
Lines == Split(Get(stdout), NL)

\* A line that opens with a number, a full stop and a space.
IsNumbered(l) ==
    LET d == RunEnd(l, 1, Digit)
    IN  d >= 1 /\ Len(l) >= d + 2 /\ l[d + 1] = "." /\ l[d + 2] = " "

Numbered(lines) == { k \in 1..Len(lines) : IsNumbered(lines[k]) }

\* The <<team, key>> pairs in the order the scan of commits 1..n meets them:
\* commits in their order, a commit's issues in the order the tracker lists
\* them, or the commit itself where no issue is resolved.
ScanOfCommit(k) ==
    LET yt == get_issues(ReferencedIds(Message(k)))
    IN  IF yt = <<>>
        THEN << <<OTHER_TEAM, <<Null, commit_short_message(Message(k))>>>> >>
        ELSE [j \in 1..Len(yt) |->
                 <<product_team(yt[j]),
                   <<Some(id_readable(yt[j])), NoteFor(yt[j], Message(k))>>>>]

RECURSIVE Scan(_)
Scan(n) == IF n = 0 THEN <<>> ELSE Scan(n - 1) \o ScanOfCommit(n)

\* seq with every repeat of an earlier member left out.
RECURSIVE FirstAppearances(_)
FirstAppearances(seq) ==
    IF seq = <<>> THEN <<>>
    ELSE LET front == FirstAppearances(SubSeq(seq, 1, Len(seq) - 1))
         IN  IF seq[Len(seq)] \in Range(front) THEN front
             ELSE Append(front, seq[Len(seq)])

----------------------------------------------------------------------------
(* C1: after any number of commits have been merged, within a team every   *)
(* (issue id, note) pair is one entry, the entries are exactly the pairs   *)
(* the commits produced, each entry's link set is the union of the link    *)
(* sets of every commit that produced it, and the rendered notes hold one  *)
(* numbered line per entry.                                                *)
C1_OneEntryUnionLinks ==
    LET returned == Returned(i)
    IN  /\ \A a, b \in 1..Len(release_notes) :
               release_notes[a].key = release_notes[b].key => a = b
        /\ \A a \in 1..Len(release_notes) :
               \A b, c \in 1..Len(release_notes[a].value) :
                   release_notes[a].value[b].key = release_notes[a].value[c].key
                       => b = c
        /\ \A k \in 1..i :
               \A ab \in Positions(returned[k]) :
                   Holds(release_notes, TeamAt(returned[k], ab), KeyAt(returned[k], ab))
        /\ \A ab \in Positions(release_notes) :
               /\ \E k \in 1..i :
                      Holds(returned[k], TeamAt(release_notes, ab), KeyAt(release_notes, ab))
               /\ LinksAt(release_notes, ab)
                      = UNION { LinksUnder(returned[k], TeamAt(release_notes, ab),
                                           KeyAt(release_notes, ab)) : k \in 1..i }
        /\ pc = "done" =>
               Cardinality(Numbered(Lines)) = Cardinality(Positions(release_notes))

\* Two commits resolved to the same (team, issue id, note): one entry holds
\* the commit links of both, and the notes are rendered.
C1_Witness ==
    /\ pc = "done"
    /\ Len(commits) = 2
    /\ Message(1) # Message(2)
    /\ \E e \in Entries(release_notes) :
           /\ e[2][1] # Null
           /\ {github_url(ShaOf(1)), github_url(ShaOf(2))} \subseteq e[3]

----------------------------------------------------------------------------
(* C2: a processed commit for which no issue is resolved yields exactly    *)
(* one entry, under "Other", keyed by (no issue id, first line of the      *)
(* message), with the commit link as its only link; every processed commit *)
(* has its commit link in some merged entry, and in the rendered notes on  *)
(* some numbered line.                                                     *)
C2_NoCommitDropped ==
    /\ \A k \in 1..i :
           NoIssueResolved(k) =>
               LET one == release_note(Message(k), ShaOf(k))
               IN  /\ Len(one) = 1
                   /\ one[1].key = OTHER_TEAM
                   /\ Len(one[1].value) = 1
                   /\ one[1].value[1].key[1] = Null
                   /\ IsFirstLineOf(one[1].value[1].key[2], Message(k))
                   /\ one[1].value[1].value = {github_url(ShaOf(k))}
                   /\ github_url(ShaOf(k))
                          \in LinksUnder(release_notes, OTHER_TEAM, one[1].value[1].key)
    /\ \A k \in 1..i :
           \E ab \in Positions(release_notes) :
               github_url(ShaOf(k)) \in LinksAt(release_notes, ab)
    /\ pc = "done" =>
           LET lines == Lines
           IN  \A k \in 1..Len(commits) :
                   \E l \in Numbered(lines) :
                       Occurs(github_url(ShaOf(k)), lines[l])

\* A commit that references issues the tracker does not know, beside a
\* commit that resolves one, and the notes are rendered.
C2_Witness ==
    /\ pc = "done"
    /\ \E k \in 1..Len(commits) :
           ReferencedIds(Message(k)) # {} /\ NoIssueResolved(k)
    /\ \E k \in 1..Len(commits) : ~NoIssueResolved(k)

----------------------------------------------------------------------------
(* C10: every merged entry has links, among them the commit link of every  *)
(* commit that produced it; it has a tracker link exactly when it has an   *)
(* issue id (its own issue's); an entry without issue id is under "Other"  *)
(* and holds commit links only; and every rendered numbered line ends with *)
(* the bracketed link list.                                                *)
C10_LinksNeverEmpty ==
    /\ \A ab \in Positions(release_notes) :
           LET id == KeyAt(release_notes, ab)[1]
               links == LinksAt(release_notes, ab)
           IN  /\ links # {}
               /\ (\E l \in links : IsTrackerLink(l)) <=> id # Null
               /\ id # Null => TrackerLink(Get(id)) \in links
               /\ id = Null =>
                      /\ TeamAt(release_notes, ab) = OTHER_TEAM
                      /\ \A l \in links : IsCommitLink(l)
    /\ \A k \in 1..i :
           LET one == release_note(Message(k), ShaOf(k))
           IN  \A ab \in Positions(one) :
                   github_url(ShaOf(k))
                       \in LinksUnder(release_notes, TeamAt(one, ab), KeyAt(one, ab))
    /\ pc = "done" =>
           LET lines == Lines
           IN  \A l \in Numbered(lines) : lines[l][Len(lines[l])] = "]"

\* Rendered notes that hold an entry without issue id and one with.
C10_Witness ==
    /\ pc = "done"
    /\ \E e \in Entries(release_notes) : e[2][1] = Null
    /\ \E e \in Entries(release_notes) : e[2][1] # Null /\ Cardinality(e[3]) >= 3

----------------------------------------------------------------------------
(* C3: teams are kept, and rendered, in the order in which the scan of the *)
(* commits first meets them, and a team's entries in the order in which    *)
(* the scan first meets their (issue id, note) pairs; in the rendered      *)
(* notes each team's header is followed by its entries numbered 1, 2, ...  *)
(* n without gaps, and the headers stand in the teams' order.  Since this  *)
(* holds after every commit, a later commit moves nothing.                 *)
C3_FirstAppearanceOrder ==
    LET scan == Scan(i)
    IN  /\ Keys(release_notes) = FirstAppearances([j \in 1..Len(scan) |-> scan[j][1]])
        /\ \A a \in 1..Len(release_notes) :
               LET own == SelectSeq(scan, LAMBDA x : x[1] = release_notes[a].key)
               IN  Keys(release_notes[a].value)
                       = FirstAppearances([j \in 1..Len(own) |-> own[j][2]])
        /\ pc = "done" =>
               LET lines == Lines
                   HeaderAt(a) ==
                       CHOOSE h \in 1..Len(lines) :
                           lines[h] = release_notes[a].key \o <<":">>
               IN  \A a \in 1..Len(release_notes) :
                       LET items == release_notes[a].value
                           h == HeaderAt(a)
                       IN  /\ \E k \in 1..Len(lines) :
                                  lines[k] = release_notes[a].key \o <<":">>
                           /\ a > 1 => HeaderAt(a - 1) < h
                           /\ \A j \in 1..Len(items) :
                                  StartsWith(lines[h + j],
                                      Str(j) \o <<".", " ">>
                                          \o IssueLinkOrEmpty(items[j].key[1])
                                          \o items[j].key[2] \o <<" ", "[">>)
                           /\ (h + Len(items) + 1 <= Len(lines)
                                   => lines[h + Len(items) + 1] = <<>>)

\* The first commit opened a team with two entries; the second commit hit
\* the first of them only, and it stays first.
C3_Witness ==
    /\ pc = "done"
    /\ Len(commits) = 2
    /\ Len(release_notes[1].value) = 2
    /\ release_notes[1].value[1].key[1] # release_notes[1].value[2].key[1]
    /\ {github_url(ShaOf(1)), github_url(ShaOf(2))}
           \subseteq release_notes[1].value[1].value
    /\ github_url(ShaOf(2)) \notin release_notes[1].value[2].value

----------------
(* The frame of the text written: the line each team's header is on, if    *)
(* the header of the first team is on line `first` and `gap` empty lines   *)
(* part a team's last entry from the next header.                          *)

RECURSIVE HeaderLine(_, _, _)
HeaderLine(a, first, gap) ==
    IF a = 1 THEN first
    ELSE HeaderLine(a - 1, first, gap) + Len(release_notes[a - 1].value) + gap + 1

Framed(lines, first, gap) ==
    /\ lines[1] = title
    /\ \A k \in 2..(first - 1) : lines[k] = <<>>
    /\ \A a \in 1..Len(release_notes) :
           LET h == HeaderLine(a, first, gap)
           IN  /\ h + Len(release_notes[a].value) <= Len(lines)
               /\ lines[h] = release_notes[a].key \o <<":">>
               /\ \A j \in 1..Len(release_notes[a].value) : IsNumbered(lines[h + j])
               /\ a > 1 => \A g \in 1..gap : lines[h - g] = <<>>
    /\ Len(lines) = HeaderLine(Len(release_notes), first, gap)
                        + Len(release_notes[Len(release_notes)].value)

(* C4 as stated: the text is the title, then for every team a blank line,  *)
(* the line "{Team}:" and the team's numbered lines; so the title and the  *)
(* first team header are parted by a blank line.                           *)
C4_BlankLineAfterTitle ==
    pc = "done" => Framed(Lines, 3, 1) \/ Framed(Lines, 3, 2)

(* C4 amended: the body is trimmed before the title and one newline are    *)
(* put in front of it, so the first team header stands on the line right   *)
(* after the title, with no blank line between; every later team header    *)
(* follows the previous team's last numbered line after two empty lines;   *)
(* the text ends with the last numbered line, with no newline after it.    *)
C4_HeaderRightAfterTitle ==
    pc = "done" =>
        /\ Framed(Lines, 2, 2)
        /\ StartsWith(Get(stdout), title \o <<NL>> \o release_notes[1].key \o <<":", NL, "1", ".", " ">>)
        /\ Get(stdout)[Len(Get(stdout))] = "]"

\* Rendered notes with two teams, the first with two entries.
C4_Witness ==
    /\ pc = "done"
    /\ Len(release_notes) = 2
    /\ Len(release_notes[1].value) = 2
    /\ release_notes[2].key = OTHER_TEAM

----------------------------------------------------------------------------
(* C5: the text written is a function of the title, the commits and the    *)
(* tracker's answers: whatever a run on this input can write is what this  *)
(* run wrote.  (A second run on the same input reaches the same            *)
(* release_notes and writes a member of Payload(title, release_notes).)    *)
C5_Deterministic ==
    pc = "done" =>
        \A text \in Payload(title, release_notes) : stdout = Some(text)

----------------------------------------------------------------------------
(* C6: for every processed commit and every issue resolved for it, the     *)
(* entry that holds the issue's id and the commit's link has as its note   *)
(* the first line of the commit's message when the issue's release note is *)
(* absent (field unset, text empty after stripping, or the sentinel), and  *)
(* the issue's stripped release note text otherwise; each issue of a       *)
(* commit is decided on its own.                                           *)
NoteAbsent(issue) ==
    LET value == get_field_value(issue, "Release note")
    IN  \/ value = Null
        \/ Strip(Get(value).text) = <<>>
        \/ Strip(Get(value).text) = NO_RELEASE_NOTE

C6_NoteOrFirstLine ==
    \A k \in 1..i :
        LET yt == get_issues(ReferencedIds(Message(k)))
        IN  \A j \in 1..Len(yt) :
                LET mine == { ab \in Positions(release_notes) :
                                  /\ KeyAt(release_notes, ab)[1] = Some(yt[j].idReadable)
                                  /\ github_url(ShaOf(k)) \in LinksAt(release_notes, ab) }
                IN  /\ Cardinality(mine) = 1
                    /\ \A ab \in mine :
                           IF NoteAbsent(yt[j])
                           THEN IsFirstLineOf(KeyAt(release_notes, ab)[2], Message(k))
                           ELSE KeyAt(release_notes, ab)[2]
                                    = Strip(Get(get_field_value(yt[j], "Release note")).text)

\* A commit of several lines whose issue has no release note, and a commit
\* with two issues of which one has a release note and the other has not.
C6_Witness ==
    /\ i = Len(commits)
    /\ \E k \in 1..i :
           /\ Message(k) = MSG_BRACKET
           /\ \E e \in Entries(release_notes) :
                  /\ e[2] = <<Some(A1), <<"[", "A", "-", "1", "]", " ", "x">>>>
                  /\ github_url(ShaOf(k)) \in e[3]
    /\ \E k \in 1..i :
           /\ Message(k) = MSG_TWO
           /\ \E e \in Entries(release_notes) :
                  /\ e[2] = <<Some(A1), MSG_TWO>>
                  /\ github_url(ShaOf(k)) \in e[3]
           /\ \E e \in Entries(release_notes) :
                  /\ e[2] = <<Some(BC20), <<"D", "o", "n", "e">>>>
                  /\ github_url(ShaOf(k)) \in e[3]

----------------------------------------------------------------------------
(* C7: once a resolver call got a response that is not a success, the run  *)
(* is aborted with exit status 1, nothing has been or will be written to   *)
(* standard output, the failed call is the last call, and no step follows: *)
(* no retry, no later commit, no notes.                                    *)
C7_FailFast ==
    /\ stderr # Null =>
           /\ pc = "aborted"
           /\ exit_status = Some(1)
           /\ stdout = Null
           /\ i < Len(commits)
           /\ ReferencedIds(Message(i + 1)) # {}
           /\ ~ENABLED Next
    /\ stdout # Null => pc = "done" /\ exit_status = Some(0) /\ stderr = Null

\* The second commit's resolver call fails after the first commit was
\* processed with a call of its own.
C7_Witness ==
    /\ pc = "aborted"
    /\ i = 1
    /\ calls = 2
    /\ release_notes # <<>>
    /\ stdout = Null

----------------------------------------------------------------------------
(* C9 as stated: one invocation makes at most one resolver call.           *)
C9_AtMostOneCall == calls <= 1

(* C9 amended: one resolver call is made for each commit handed to         *)
(* release_note whose reference set is not empty, none for a commit whose  *)
(* reference set is empty; so at most one call per commit, and as many     *)
(* calls in the pass as there are commits with references.                 *)
C9_OneCallPerReferencingCommit ==
    LET handed == IF pc = "aborted" THEN i + 1 ELSE i
    IN  /\ calls = Cardinality({ k \in 1..handed : ReferencedIds(Message(k)) # {} })
        /\ calls <= Len(commits)

\* Two commits processed, one with references and one without: one call.
C9_Witness ==
    /\ pc = "done"
    /\ i = 2
    /\ calls = 1
    /\ ReferencedIds(Message(1)) = {}

====
